---------------------------- MODULE Spec2Model ----------------------------
(***************************************************************************)
(* Model of src/main.py: a Streamlit chat script that routes one user      *)
(* message per turn through a one-node LangGraph graph (chatbot) to the    *)
(* Perplexity Sonar completion endpoint, optionally after a DuckDuckGo     *)
(* search.                                                                 *)
(*                                                                         *)
(* A text is a sequence of fragments: single characters for user text,     *)
(* whole literals for the fixed pieces of templates and replies.           *)
(* One action is one UI event followed by the script run it triggers.      *)
(***************************************************************************)
EXTENDS Naturals, Sequences, FiniteSets

VARIABLES
    environ,         \* os.environ["PERPLEXITY_API_KEY"]; "" when unset or empty
    phase,           \* "new": no run yet; "gated": last run ended at st.stop();
                     \* "ready": last run reached the end of the script
    search_enabled,  \* value of the sidebar checkbox
    has_messages,    \* "messages" in st.session_state
    messages,        \* st.session_state.messages
    user_input,      \* value st.chat_input returned in the last run (<<>>: none)
    is_casual,       \* chatbot's local is_casual in the last run (FALSE: not run)
    calls,           \* outbound calls made during the last run, in order, each
                     \* with its argument and whether it raised
    result,          \* result["messages"] of the last graph.invoke (<<>>: none)
    event            \* the UI event that triggered the last run

vars == <<environ, phase, search_enabled, has_messages, messages, user_input,
          is_casual, calls, result, event>>

-----------------------------------------------------------------------------
(* Bounds *)

\* turns a conversation may hold before the model stops submitting
MaxTurns == 2

\* longest generated text given to the classifier
MaxTextLen == 3

-----------------------------------------------------------------------------
(* Texts *)

UpperCase == <<"A","B","C","D","E","F","G","H","I","J","K","L","M",
               "N","O","P","Q","R","S","T","U","V","W","X","Y","Z">>
LowerCase == <<"a","b","c","d","e","f","g","h","i","j","k","l","m",
               "n","o","p","q","r","s","t","u","v","w","x","y","z">>

\* str.lower() on one character
LowerChar(c) ==
    IF \E i \in DOMAIN UpperCase : UpperCase[i] = c
    THEN LowerCase[CHOOSE i \in DOMAIN UpperCase : UpperCase[i] = c]
    ELSE c

\* str.lower()
Lower(s) == [i \in DOMAIN s |-> LowerChar(s[i])]

\* Does word occur in text starting at position i, compared from offset j on
RECURSIVE MatchAt(_, _, _, _)
MatchAt(text, word, i, j) ==
    IF j > Len(word) THEN TRUE
    ELSE IF i + j - 1 > Len(text) THEN FALSE
    ELSE IF text[i + j - 1] # word[j] THEN FALSE
    ELSE MatchAt(text, word, i, j + 1)

RECURSIVE FindFrom(_, _, _)
FindFrom(text, word, i) ==
    IF i + Len(word) - 1 > Len(text) THEN FALSE
    ELSE IF MatchAt(text, word, i, 1) THEN TRUE
    ELSE FindFrom(text, word, i + 1)

\* mutant: the keyword must start the text
ContainsPrefixOnly(word, text) == MatchAt(text, word, 1, 1)

\* Python's `word in text` on strings
Contains(word, text) == FindFrom(text, word, 1)

casual_keywords ==
    << <<"h","i">>,
       <<"h","e","l","l","o">>,
       <<"h","o","w"," ","a","r","e"," ","y","o","u">>,
       <<"w","h","a","t","'","s"," ","u","p">>,
       <<"h","e","y">>,
       <<"j","o","k","e">>,
       <<"p","y","t","h","o","n">> >>

\* mutant: the question is compared without lowercasing
casual_case_sensitive(user_question) ==
    \E k \in DOMAIN casual_keywords : Contains(casual_keywords[k], user_question)

\* is_casual = any(word in user_question.lower() for word in casual_keywords)
casual(user_question) ==
    \E k \in DOMAIN casual_keywords :
        Contains(casual_keywords[k], Lower(user_question))

-----------------------------------------------------------------------------
(* Inputs *)

\* keys the user may type into the API key field ("" : field left empty)
KeyInputs == {"", "pplx-1"}

\* initial values of the environment variable
InitialEnviron == {"", "pplx-0"}

\* user texts submitted in the chat input (non-empty)
TurnTexts ==
    { <<"h","i">>,
      <<"H","e","Y">>,
      <<"t","h","i","s">>,
      <<"w","h","y">> }

\* what the Search Provider may do: return a text or raise
SearchOutcomes ==
    { [ok |-> TRUE,  text |-> <<"search results">>],
      [ok |-> FALSE, text |-> <<"search failed">>] }

\* what the completion endpoint may do: answer or fail (raise_for_status)
SonarOutcomes ==
    { [ok |-> TRUE,  text |-> <<"reply">>],
      [ok |-> FALSE, text |-> <<"401 Client Error">>] }


\* the user filled nothing in: no chat input, no outcome consulted
NoTurn ==
    [text |-> <<>>, search |-> [ok |-> TRUE, text |-> <<>>],
     sonar |-> [ok |-> TRUE, text |-> <<>>], aliased |-> FALSE]

\* one submitted chat input with what the two services will do during the
\* turn; aliased: whether the list chatbot appends to is the list the graph
\* later merges the node's update into
Turns ==
    [text : TurnTexts, search : SearchOutcomes, sonar : SonarOutcomes,
     aliased : BOOLEAN]

-----------------------------------------------------------------------------
(* Messages *)

\* {"role": role, "content": content}
Dict(role, content) == [kind |-> "dict", role |-> role, content |-> content]

\* a dict with a role becomes the message object of that role
convert_to_message(m) ==
    IF m.kind = "dict"
    THEN [kind |-> IF m.role = "user" THEN "HumanMessage" ELSE "AIMessage",
          role |-> m.role, content |-> m.content]
    ELSE m

\* the reducer of State.messages: both sides converted, right appended
add_messages(left, right) ==
    [i \in DOMAIN left |-> convert_to_message(left[i])]
        \o [i \in DOMAIN right |-> convert_to_message(right[i])]

-----------------------------------------------------------------------------
(* Completion Client and Search Provider *)

\* mutant: a failed request is posted a second time
call_sonar_api_retry(prompt, outcome) ==
    [raised |-> ~outcome.ok,
     value  |-> outcome.text,
     calls  |-> IF outcome.ok
                THEN <<[api |-> "sonar", arg |-> prompt, raised |-> FALSE]>>
                ELSE <<[api |-> "sonar", arg |-> prompt, raised |-> TRUE],
                       [api |-> "sonar", arg |-> prompt, raised |-> TRUE]>>]

\* one requests.post; raise_for_status raises on a failure, otherwise the
\* content of the first choice is returned
call_sonar_api(prompt, outcome) ==
    [raised |-> ~outcome.ok,
     value  |-> outcome.text,
     calls  |-> <<[api |-> "sonar", arg |-> prompt, raised |-> ~outcome.ok]>>]

\* search.invoke(query)
search_invoke(query, outcome) ==
    [raised |-> ~outcome.ok,
     value  |-> outcome.text,
     calls  |-> <<[api |-> "search", arg |-> query, raised |-> ~outcome.ok]>>]

-----------------------------------------------------------------------------
(* chatbot *)

\* default of chatbot's parameter search_enabled
search_enabled_default == TRUE

\* the question read from the last message of the graph state
user_question_of(last_message) ==
    IF last_message.kind = "HumanMessage" THEN last_message.content
    ELSE IF last_message.kind = "dict" THEN last_message.content
    ELSE <<"content='">> \o last_message.content \o <<"'">>

\* mutant: the negation of the flag is lost
goes_to_sonar_flag_not_negated(casual_query, enabled) == casual_query \/ enabled

\* if is_casual or not search_enabled
goes_to_sonar(casual_query, enabled) == casual_query \/ ~enabled

SYSTEM_PROMPT(search_result, user_question) ==
    <<"You are an Expert Web Research Assistant.\n\nSEARCH RESULTS: ">>
        \o search_result
        \o <<"\n\nUSER QUESTION: ">>
        \o user_question
        \o <<"\n\nProvide a well-structured, informative response based on the search results.">>

\* what chatbot leaves behind when a call raised: nothing appended
chatbot_raised(state, casual_query, exc, made) ==
    [raised |-> TRUE, exc |-> exc, is_casual |-> casual_query, calls |-> made,
     state_messages |-> state.messages, update |-> <<>>]

\* the append to state["messages"] and the returned update
chatbot_returned(state, casual_query, response_text, made) ==
    [raised |-> FALSE, exc |-> <<>>, is_casual |-> casual_query, calls |-> made,
     state_messages |-> Append(state.messages, Dict("assistant", response_text)),
     update |-> <<Dict("assistant", response_text)>>]

chatbot(state, enabled, turn) ==
    LET last_message  == state.messages[Len(state.messages)]
        user_question == user_question_of(last_message)
        casual_query  == casual(user_question)
    IN  IF goes_to_sonar(casual_query, enabled)
        THEN LET r == call_sonar_api(user_question, turn.sonar)
             IN  IF r.raised
                 THEN chatbot_raised(state, casual_query, r.value, r.calls)
                 ELSE chatbot_returned(state, casual_query, r.value, r.calls)
        ELSE LET s == search_invoke(user_question, turn.search)
             IN  IF s.raised
                 THEN chatbot_raised(state, casual_query, s.value, s.calls)
                 ELSE LET r == call_sonar_api(SYSTEM_PROMPT(s.value, user_question),
                                              turn.sonar)
                      IN  IF r.raised
                          THEN chatbot_raised(state, casual_query, r.value,
                                              s.calls \o r.calls)
                          ELSE chatbot_returned(state, casual_query, r.value,
                                                s.calls \o r.calls)

\* graph.invoke(input): State declares the key messages only, so that is all
\* the node receives; chatbot is called with the state alone and its second
\* parameter keeps its default
graph_invoke(input, turn) ==
    LET state == [messages |-> add_messages(<<>>, input.messages)]
        r     == chatbot(state, search_enabled_default, turn)
    IN  [raised    |-> r.raised,
         exc       |-> r.exc,
         is_casual |-> r.is_casual,
         calls     |-> r.calls,
         messages  |-> IF r.raised THEN <<>>
                       ELSE add_messages(IF turn.aliased THEN r.state_messages
                                         ELSE state.messages,
                                         r.update)]

-----------------------------------------------------------------------------
(* Turn handler *)

ErrorPrefix == <<"Sorry, I encountered an error: ">>

\* mutant: the exception text alone
error_msg_bare(exc) == exc

\* error_msg = f"Sorry, I encountered an error: {str(e)}"
error_msg(exc) == ErrorPrefix \o exc

\* ai_response: the content of the last message of the result
ai_response(ai_response_msg) == ai_response_msg.content

\* mutant: every message the graph produced after the input is copied
append_response_all(history, graph_messages) ==
    history \o [i \in 1..(Len(graph_messages) - 1) |->
                    Dict("assistant", graph_messages[i + 1].content)]

\* st.session_state.messages.append({"role": "assistant", "content": ai_response})
append_response(history, graph_messages) ==
    Append(history,
           Dict("assistant", ai_response(graph_messages[Len(graph_messages)])))

\* mutant: the failure is shown but not recorded
append_error_skipped(history, exc) == history

\* the except branch
append_error(history, exc) == Append(history, Dict("assistant", error_msg(exc)))

\* mutant: the history is replaced by the new message
append_user_overwrite(history, text) == <<Dict("user", text)>>

\* st.session_state.messages.append({"role": "user", "content": user_input})
append_user(history, text) == Append(history, Dict("user", text))

\* the whole `if user_input := ...` block: the session messages after it
turn_messages(history, r, text) ==
    IF r.raised
    THEN append_error(append_user(history, text), r.exc)
    ELSE append_response(append_user(history, text), r.messages)

-----------------------------------------------------------------------------
(* The script *)

\* mutant: the script goes on without a key
stops_never(api_key) == FALSE

\* if not api_key: st.warning(...); st.stop()
stops(api_key) == api_key = ""

\* the environment after the key block at the top of the script
environ_after(api_input) ==
    IF environ = "" /\ api_input # "" THEN api_input ELSE environ

\* One run of the script, triggered by event ev, with the widget values of
\* that run.
Run(ev, api_input, checkbox, clear_clicked, turn) ==
    LET api_key == environ_after(api_input)
        history == IF has_messages THEN messages ELSE <<>>
        r       == graph_invoke([messages |-> <<Dict("user", turn.text)>>,
                                 search_enabled |-> checkbox], turn)
    IN  /\ event' = ev
        /\ environ' = api_key
        /\ IF stops(api_key)
           THEN /\ phase' = "gated"
                /\ user_input' = <<>>
                /\ is_casual' = FALSE
                /\ calls' = <<>>
                /\ result' = <<>>
                /\ UNCHANGED <<search_enabled, has_messages, messages>>
           ELSE /\ phase' = "ready"
                /\ search_enabled' = checkbox
                /\ has_messages' = TRUE
                /\ IF clear_clicked
                   THEN \* messages = [] and st.rerun(): the rerun changes nothing
                        /\ messages' = <<>>
                        /\ user_input' = <<>>
                        /\ is_casual' = FALSE
                        /\ calls' = <<>>
                        /\ result' = <<>>
                   ELSE IF turn.text # <<>>
                   THEN /\ messages' = turn_messages(history, r, turn.text)
                        /\ user_input' = turn.text
                        /\ is_casual' = r.is_casual
                        /\ calls' = r.calls
                        /\ result' = r.messages
                   ELSE /\ messages' = history
                        /\ user_input' = <<>>
                        /\ is_casual' = FALSE
                        /\ calls' = <<>>
                        /\ result' = <<>>

Init ==
    /\ environ \in InitialEnviron
    /\ phase = "new"
    /\ search_enabled = TRUE
    /\ has_messages = FALSE
    /\ messages = <<>>
    /\ user_input = <<>>
    /\ is_casual = FALSE
    /\ calls = <<>>
    /\ result = <<>>
    /\ event = "none"

\* the browser connects: first run of the script
Connect ==
    /\ phase = "new"
    /\ Run("connect", "", TRUE, FALSE, NoTurn)

\* the user commits the API key field
EnterKey ==
    /\ phase = "gated"
    /\ \E k \in KeyInputs : Run("key", k, search_enabled, FALSE, NoTurn)

\* the user flips the checkbox
Toggle ==
    /\ phase = "ready"
    /\ Run("toggle", "", ~search_enabled, FALSE, NoTurn)

\* the user presses Clear Chat History
Clear ==
    /\ phase = "ready"
    /\ Run("clear", "", search_enabled, TRUE, NoTurn)

\* the user submits a chat input
Submit ==
    /\ phase = "ready"
    /\ Len(messages) < 2 * MaxTurns
    /\ \E turn \in Turns : Run("submit", "", search_enabled, FALSE, turn)

Next == Connect \/ EnterKey \/ Toggle \/ Clear \/ Submit

Spec == Init /\ [][Next]_vars

-----------------------------------------------------------------------------
(* The classifier on its own: chatbot called on a state holding one text *)

Alphabet == {"h", "i", "e", "y", "H", "I", " ", "o"}

\* texts around each keyword: exact, in capitals, inside a longer word, cut short
SampleTexts ==
    { <<"H","e","l","l","o">>,
      <<"o","h","e","l","l","o","!">>,
      <<"h","e","l","l">>,
      <<"H","o","w"," ","a","r","e"," ","Y","O","U","?">>,
      <<"h","o","w"," ","a","r","e","y","o","u">>,
      <<"W","h","a","t","'","s"," ","u","p">>,
      <<"w","h","a","t","s"," ","u","p">>,
      <<"J","O","K","E","S">>,
      <<"j","o","k">>,
      <<"P","y","t","h","o","n","3">>,
      <<"p","y","t","h","o","m">> }

ClassifierTexts ==
    UNION {[1..n -> Alphabet] : n \in 0..MaxTextLen} \cup SampleTexts

ClassifierInit ==
    /\ environ = "pplx-0"
    /\ phase = "ready"
    /\ search_enabled = TRUE
    /\ has_messages = FALSE
    /\ messages = <<>>
    /\ user_input \in ClassifierTexts
    /\ is_casual = FALSE
    /\ calls = <<>>
    /\ result = <<>>
    /\ event = "none"

\* chatbot(state) on the state whose only message is the text
Classify ==
    /\ event = "none"
    /\ \E search \in SearchOutcomes, sonar \in SonarOutcomes :
         LET state == [messages |-> <<Dict("user", user_input)>>]
             r == chatbot(state, search_enabled_default,
                          [text |-> user_input, search |-> search,
                           sonar |-> sonar, aliased |-> FALSE])
         IN  /\ is_casual' = r.is_casual
             /\ calls' = r.calls
    /\ event' = "chatbot"
    /\ UNCHANGED <<environ, phase, search_enabled, has_messages, messages,
                   user_input, result>>

ClassifierNext == Classify

ClassifierSpec == ClassifierInit /\ [][ClassifierNext]_vars

-----------------------------------------------------------------------------
(* Properties *)

\* the literals the classifier is said to look for
Literals ==
    { <<"h","i">>, <<"h","e","l","l","o">>,
      <<"h","o","w"," ","a","r","e"," ","y","o","u">>,
      <<"w","h","a","t","'","s"," ","u","p">>,
      <<"h","e","y">>, <<"j","o","k","e">>, <<"p","y","t","h","o","n">> }

\* some literal is a substring of the lowercased text
HasCasualKeyword(text) ==
    \E kw \in Literals :
        \E i \in 1..Len(text) :
            /\ i + Len(kw) - 1 <= Len(text)
            /\ SubSeq(Lower(text), i, i + Len(kw) - 1) = kw

SearchCalls == {i \in DOMAIN calls : calls[i].api = "search"}
SonarCalls  == {i \in DOMAIN calls : calls[i].api = "sonar"}
SomeCallRaised == \E i \in DOMAIN calls : calls[i].raised

BeginsWith(text, prefix) ==
    /\ Len(prefix) <= Len(text)
    /\ SubSeq(text, 1, Len(prefix)) = prefix

\* messages is extended by exactly the user message and one assistant message
TwoAppended ==
    /\ Len(messages') = Len(messages) + 2
    /\ SubSeq(messages', 1, Len(messages)) = messages
    /\ messages'[Len(messages) + 1].role = "user"
    /\ messages'[Len(messages) + 1].content = user_input'
    /\ messages'[Len(messages) + 2].role = "assistant"

\* C1: a turn taken while the search-enabled flag is false never calls the
\* Search Provider and sends the raw user text to the Completion Client.
C1_FlagOffSkipsSearch ==
    (event = "submit" /\ ~search_enabled) =>
        /\ SearchCalls = {}
        /\ Len(calls) = 1
        /\ calls[1].api = "sonar"
        /\ calls[1].arg = user_input

\* C2: a turn whose text contains a casual keyword, in any letter case and
\* whatever the flag, never calls the Search Provider and sends the raw user
\* text to the Completion Client.
C2_CasualSkipsSearch ==
    (event = "submit" /\ HasCasualKeyword(user_input)) =>
        /\ SearchCalls = {}
        /\ Len(calls) = 1
        /\ calls[1].api = "sonar"
        /\ calls[1].arg = user_input

C2_Witness ==
    /\ event = "submit"
    /\ search_enabled
    /\ HasCasualKeyword(user_input)
    /\ user_input # Lower(user_input)
    /\ calls # <<>>

\* C3: a turn whose text contains no casual keyword, taken with search
\* enabled, calls the Search Provider exactly once, with the user text, as
\* the first call of the turn; the Completion Client is called only after a
\* search that returned.
C3_SearchOnceBeforeCompletion ==
    (event = "submit" /\ search_enabled /\ ~HasCasualKeyword(user_input)) =>
        /\ Cardinality(SearchCalls) = 1
        /\ calls[1].api = "search"
        /\ calls[1].arg = user_input
        /\ \A i \in SonarCalls : i > 1 /\ ~calls[1].raised

C3_Witness ==
    /\ event = "submit"
    /\ search_enabled
    /\ ~HasCasualKeyword(user_input)
    /\ Len(calls) = 2
    /\ calls[2].api = "sonar"

C6_NoKeyNoInteraction ==
    (environ = "") =>
        /\ phase # "ready"
        /\ ~has_messages
        /\ messages = <<>>
        /\ calls = <<>>
        /\ result = <<>>

C6_Witness ==
    /\ environ = ""
    /\ phase = "gated"
    /\ event = "key"

\* C7: the classifier answers true exactly when the lowercased text contains
\* one of the seven literals as a substring, and false for the empty text.
C7_ClassifierIsSubstringTest ==
    (event = "chatbot") =>
        /\ is_casual <=> HasCasualKeyword(user_input)
        /\ (user_input = <<>>) => ~is_casual

\* a keyword found inside a longer word
C7_Witness ==
    /\ event = "chatbot"
    /\ is_casual
    /\ Len(user_input) = 3
    /\ SubSeq(Lower(user_input), 2, 3) = <<"h","i">>

\* C8: a step either leaves the earlier conversation as a prefix of the
\* later one or is the clear action, which empties it; a toggle changes no
\* message.
C8_OnlyClearRemoves ==
    [][/\ \/ /\ Len(messages) <= Len(messages')
             /\ SubSeq(messages', 1, Len(messages)) = messages
          \/ event' = "clear"
       /\ (event' = "clear") => (messages' = <<>>)
       /\ (event' = "toggle") => (messages' = messages)]_vars

\* a turn taken after the flag was switched off, on top of an earlier turn
C8_Witness ==
    /\ event = "submit"
    /\ ~search_enabled
    /\ Len(messages) = 4

\* C9: a turn posts at most one request to the completion endpoint: exactly
\* one when no search raised, none when the search raised.
C9_OneRequestNoRetry ==
    (event = "submit") =>
        /\ Cardinality(SonarCalls) <= 1
        /\ (\E i \in SearchCalls : calls[i].raised) => (SonarCalls = {})
        /\ (\A i \in SearchCalls : ~calls[i].raised) =>
               (Cardinality(SonarCalls) = 1)

\* a completion request that failed
C9_Witness ==
    /\ event = "submit"
    /\ \E i \in SonarCalls : calls[i].raised

=============================================================================
